---- MODULE Spec2Model ----
(***************************************************************************)
(* The global click counter: the Cloudflare worker (worker/src/index.ts)   *)
(* with its D1 store (schema.sql) and edge cache, and the client-side      *)
(* animated display (useAnimatedCount) and the page that buffers and sends *)
(* the clicks (App.tsx).                                                   *)
(*                                                                         *)
(* Every `await` of a handler is a point where other requests may run, so  *)
(* each handler is cut into one action per awaited call.  Time is counted  *)
(* in whole seconds, the resolution of SQLite's datetime('now').           *)
(***************************************************************************)
EXTENDS Integers, Sequences, FiniteSets, TLC

\* ------------------------------------------------------------------ bounds
\* POST /click requests of a run
MaxClicks == 2
\* GET /count requests of a run
MaxCounts == 2
\* POST /click requests of a run next to GET /count requests
MaxCacheClicks == 1
\* last second of the clock
MaxTime == 3
\* counter.total when the run starts
PreTotal == 3
\* largest total handed to setTarget
MaxTarget == 8
\* the time between two animation frames of the page, in ms
FrameMs == 500
\* the step of the page's clock, in ms: calls can fall between two frames
ClockMs == 250
\* last instant of performance.now(), in ms
MaxPerfNow == 3000
\* POST /click requests one page sends in a run
MaxPosts == 2
\* clicks on the button in a run of the page with its sender
MaxPageClicks == 1
\* clicks counted at the first instant of a run that starts near the cap
EarlierClicks == 38
\* clicks on the button in a run that starts near the cap
MaxCapClicks == 4
\* last instant of a run of the page with its sender, in ms
MaxAppNow == 1000
\* clicks in the buffer of a page whose requests have all failed
BacklogClicks == 201
\* end of a cooldown that is running when the run starts, in ms
EarlierCooldownEnds == 1000

\* ------------------------------------------------------- program constants
CACHE_TTL_SECONDS == 2
\* largest count of one batch (the validation of handleClick)
MaxBatch == 200
\* the volume cap of the conditional INSERT
RateCap == 200
\* its window, datetime('now', '-5 seconds')
RateWindow == 5
\* the window of a verification record, datetime('now', '-60 seconds')
VerifyWindow == 60
\* App.tsx
CLICK_CAP_PER_SECOND == 40
\* the rolling window of handleClick, now - t < 1000
ClickWindowMs == 1000
\* the cooldown after a 429, Date.now() + 5000
CooldownMs == 5000

\* a header or body field that is not there (null / undefined)
Absent == "<absent>"

ALLOWED_ORIGINS ==
    << "https://theglobalcounter.com",
       "https://www.theglobalcounter.com",
       "http://localhost:5173",
       "http://localhost:4173" >>

\* the loop over the allowed origins alone, the key of a request without
\* an Origin header ("none") forgotten
PurgeOriginsWithoutNone == ALLOWED_ORIGINS

\* the origins whose cache entries handleClick deletes
PurgeOrigins == ALLOWED_ORIGINS \o << "none" >>

\* an Origin header value that is none of the allowed ones
OtherOrigin == "https://elsewhere.example"

Max(S) == CHOOSE x \in S : \A y \in S : y <= x

\* ------------------------------------------------------------ pure helpers
\* SHA-256 of the address, hex encoded: a digest that differs for
\* different addresses and never equals the address.
hashIP(ip) == << "sha256", ip >>

isLocal(ip) == ip = "127.0.0.1" \/ ip = "::1" \/ ip = "unknown"

\* encodeURIComponent on the origins in use: ':' and '/' are escaped
encodeURIComponent(o) ==
    CASE o = "https://theglobalcounter.com" -> "https%3A%2F%2Ftheglobalcounter.com"
      [] o = "https://www.theglobalcounter.com" -> "https%3A%2F%2Fwww.theglobalcounter.com"
      [] o = "http://localhost:5173" -> "http%3A%2F%2Flocalhost%3A5173"
      [] o = "http://localhost:4173" -> "http%3A%2F%2Flocalhost%3A4173"
      [] o = OtherOrigin -> "https%3A%2F%2Felsewhere.example"
      [] OTHER -> o

\* the cache key: new URL(`/count?origin=${encodeURIComponent(origin)}`, request.url)
cacheUrl(origin) == [path |-> "/count", origin |-> encodeURIComponent(origin)]

\* request.headers.get("Origin") ?? "none"
originOf(header) == IF header = Absent THEN "none" ELSE header

\* A JSON number is kept as twice its value, so that halves can be told
\* from integers: 1.5 is [type |-> "number", twice |-> 3].
Num(twice) == [type |-> "number", twice |-> twice]
NotNum(type) == [type |-> type, twice |-> 0]

\* the validation with the upper limit left out
countInvalidNoUpper(c) ==
    \/ c.type # "number"
    \/ c.twice < 2
    \/ c.twice % 2 # 0

\* typeof count !== "number" || count < 1 || count > 200 || !Number.isInteger(count)
countInvalid(c) ==
    \/ c.type # "number"
    \/ c.twice < 2
    \/ c.twice > 2 * MaxBatch
    \/ c.twice % 2 # 0

\* the check of the type alone: an empty string passes
tokenMissingTypeOnly(t) == t = Absent

\* typeof token !== "string" || !token
tokenMissing(t) == t = Absent \/ t = ""

\* --------------------------------------------------------------- the state
VARIABLES
    now,            \* the clock, in seconds
    total,          \* counter.total (the row with id = 1)
    ledger,         \* click_batches, in insertion order
    verified,       \* turnstile_verified, at most one row per ip_hash
    cacheAvailable, \* whether caches.default exists (it does not in wrangler dev)
    cache,          \* caches.default: at most one entry per key
    click,          \* the POST /click requests
    count,          \* the GET /count requests
    \* useAnimatedCount (one mounted component)
    perfNow,             \* performance.now(), in ms
    displayCount,        \* the React state: << >> for null, or << n >>
    targetRef,
    displayRef,
    initializedRef,
    rafRef,              \* whether an animation frame is requested (a non-zero id)
    animStartRef,
    animStartDisplayRef,
    animTargetRef,
    lastCall,            \* the last call the page made to the hook
    frameAt,             \* the time of the last animation frame that ran tick
    frameMissed,         \* whether a requested frame failed to run since the
                         \* animation was last anchored (a throttled page)
    mounted,             \* whether the component is mounted
    frameQueued,         \* whether the browser holds a requested frame that
                         \* has neither run nor been cancelled
    \* App (one page); Date.now() is read off the page's clock perfNow
    pendingRef,          \* clicks counted and not yet handed to a request
    localDeltaRef,       \* clicks counted and not yet known to be in a total
    rateLimitedUntilRef,
    clickTimestampsRef,
    post,                \* the page's POST /click requests
    poll,                \* the page's GET /count request
    countedAt,           \* the times of all clicks the page has counted
    dropped              \* the number of clicks the cap has turned away

serverVars == << now, total, ledger, verified, cacheAvailable, cache, click, count >>

\* the state and the refs of the hook
hookVars ==
    << displayCount, targetRef, displayRef, initializedRef, rafRef,
       animStartRef, animStartDisplayRef, animTargetRef >>

animVars == << perfNow, hookVars, lastCall, frameAt, frameMissed, mounted, frameQueued >>

appVars ==
    << pendingRef, localDeltaRef, rateLimitedUntilRef, clickTimestampsRef, post,
       poll, countedAt, dropped >>

pageVars == << animVars, appVars >>

vars == << serverVars, animVars, appVars >>

ClickIds == 1 .. MaxClicks
CountIds == 1 .. MaxCounts

\* an address that is not exempt (isLocal is false)
RemoteIP == "203.0.113.7"

\* A request that has not arrived yet.  pc, ip, count, token, i and
\* newTotal are the handler's locals; the other fields record what the
\* request has done so far: asked (it called the verification service),
\* needToken (it found no recent verification record), marked (it wrote a
\* verification record), added (what it added to counter.total), before
\* (counter.total just before its UPDATE), purgedAt (when its deletes ended).
IdleClick ==
    [pc |-> "idle", ip |-> "unknown", count |-> 0, token |-> Absent,
     i |-> 1, newTotal |-> 0, status |-> 0,
     asked |-> FALSE, needToken |-> FALSE, marked |-> FALSE,
     added |-> 0, before |-> 0, purgedAt |-> -1]

\* pc, origin and read are the handler's locals, status and total its
\* response; the other fields record how a cached response was served:
\* hit, its age, whether it was below counter.total (stale), the time since
\* the invalidation that outdated it (sinceInval), the writes that had
\* deleted its key before it was stored (after), and the writes that had
\* returned ok when the read was issued (returned).
IdleCount ==
    [pc |-> "idle", origin |-> "none", read |-> 0, status |-> 0, total |-> 0,
     hit |-> FALSE, age |-> 0, stale |-> FALSE, sinceInval |-> -1,
     after |-> {}, returned |-> {}]

\* What the database may hold when the run starts: a verification record
\* of RemoteIP that stops being recent at second OldRowsExpireAt, and a
\* ledger row of RemoteIP that leaves the rate window at that second.
OldRowsExpireAt == 2
EarlierBatches == 9
OldVerification ==
    [ip_hash |-> hashIP(RemoteIP), verified_at |-> OldRowsExpireAt - VerifyWindow]
OldBatch ==
    [count |-> 120, ip_hash |-> hashIP(RemoteIP),
     created_at |-> OldRowsExpireAt - RateWindow, req |-> 0]

RECURSIVE SumCounts(_)
SumCounts(rows) ==
    IF rows = << >> THEN 0 ELSE Head(rows).count + SumCounts(Tail(rows))

\* the refs and the state of useAnimatedCount when the component mounts
\* no call made yet; a call is recorded with its argument and the target
\* it found
NoCall == [op |-> "none", arg |-> 0, target |-> 0]

InitAnimation ==
    /\ perfNow = 0
    /\ displayCount = << >>
    /\ targetRef = 0
    /\ displayRef = 0
    /\ initializedRef = FALSE
    /\ rafRef = FALSE
    /\ animStartRef = 0
    /\ animStartDisplayRef = 0
    /\ animTargetRef = 0
    /\ lastCall = NoCall
    /\ frameAt = -1
    /\ frameMissed = FALSE
    /\ mounted = TRUE
    /\ frameQueued = FALSE

PostIds == 1 .. MaxPosts

IdlePost ==
    [pc |-> "idle", by |-> "none", batch |-> 0, status |-> 0, rejects |-> FALSE,
     applied |-> FALSE, total |-> 0]

\* a request whose response the page has dealt with
DonePost(r) == [r EXCEPT !.pc = "done", !.applied = FALSE, !.total = 0]

IdlePoll == [pc |-> "idle", ok |-> FALSE, total |-> 0]

\* the page as it mounts
InitPage ==
    /\ pendingRef = 0
    /\ localDeltaRef = 0
    /\ rateLimitedUntilRef = 0
    /\ clickTimestampsRef = << >>
    /\ post = [p \in PostIds |-> IdlePost]
    /\ poll = IdlePoll
    /\ countedAt = << >>
    /\ dropped = 0

InitWorker ==
    /\ now = 0
    /\ cache = {}
    /\ click = [r \in ClickIds |-> IdleClick]
    /\ count = [g \in CountIds |-> IdleCount]

InitRequests ==
    /\ InitAnimation
    /\ InitPage
    /\ InitWorker

\* the store with the edge cache missing (wrangler dev)
Init ==
    /\ InitRequests
    /\ ledger \in {<< >>, << OldBatch >>}
    /\ total = PreTotal + SumCounts(ledger)
    /\ verified \in {{}, {OldVerification}}
    /\ cacheAvailable = FALSE

\* the worker with or without the edge cache, on an empty ledger
InitCache ==
    /\ InitRequests
    /\ ledger = << >>
    /\ total = PreTotal
    /\ verified = {}
    /\ cacheAvailable \in BOOLEAN

\* ------------------------------------------------------------ the database
\* a record counted as recent when it is exactly 60 seconds old
recentVerifyInclusive(h) ==
    \E v \in verified : v.ip_hash = h /\ v.verified_at >= now - VerifyWindow

\* SELECT 1 FROM turnstile_verified WHERE ip_hash = ? AND verified_at > datetime('now', '-60 seconds')
recentVerify(h) ==
    \E v \in verified : v.ip_hash = h /\ v.verified_at > now - VerifyWindow

\* INSERT OR REPLACE INTO turnstile_verified (ip_hash, verified_at) VALUES (?, datetime('now'))
markVerified(h) ==
    {v \in verified : v.ip_hash # h} \cup {[ip_hash |-> h, verified_at |-> now]}

\* SELECT COALESCE(SUM(count), 0) FROM click_batches
\*   WHERE ip_hash = ? AND created_at > datetime('now', '-5 seconds')
windowSum(h) ==
    SumCounts(SelectSeq(ledger, LAMBDA row : row.ip_hash = h /\ row.created_at > now - RateWindow))

\* the cap compared with the sum alone, the batch's own count left out
underCapWithoutBatch(h, c) == windowSum(h) <= RateCap

\* the cap compared with the sum of every row of the ledger
underCapWholeLedger(h, c) == SumCounts(ledger) + c <= RateCap

\* the WHERE of the conditional INSERT
underCap(h, c) == windowSum(h) + c <= RateCap

\* ------------------------------------------------------------ verification
\* what the siteverify service answers for a token
siteverify(token) == token = "good"

\* verifyTurnstile: data.success, and false when the fetch or the parse of
\* its answer throws
verifyTurnstile(token, transport) ==
    IF transport = "ok" THEN siteverify(token) ELSE FALSE

\* --------------------------------------------------------------- the cache
\* an entry still served when its age has reached the TTL
freshAtTtl(e, t) == t - e.putAt <= CACHE_TTL_SECONDS

\* an entry stored with s-maxage = CACHE_TTL_SECONDS is served while its
\* age is below the TTL
fresh(e, t) == t - e.putAt < CACHE_TTL_SECONDS

\* cache.match(new Request(cacheUrl))
cacheMatch(key) == {e \in cache : e.key = key /\ fresh(e, now)}

\* cache.delete(new Request(cacheUrl))
cacheDelete(key) == {e \in cache : e.key # key}

\* whether request r has deleted `key` already (for the record of an entry)
hasPurged(r, key) ==
    \E j \in 1 .. (click[r].i - 1) : cacheUrl(PurgeOrigins[j]) = key

\* ------------------------------------------------------------- POST /click
Respond(r, status) ==
    click' = [click EXCEPT ![r].pc = "done", ![r].status = status]

\* request.json(), the validation of count, hashIP
ClickArrive(r, in) ==
    /\ click[r].pc = "idle"
    /\ \A q \in ClickIds : q < r => click[q].pc # "idle"
    /\ IF ~in.json \/ countInvalid(in.count)
       THEN Respond(r, 400)
       ELSE LET ip == IF in.ip = Absent THEN "unknown" ELSE in.ip
            IN  click' = [click EXCEPT ![r].ip = ip, ![r].token = in.token,
                               ![r].count = in.count.twice \div 2,
                               ![r].pc = IF isLocal(ip) THEN "insert" ELSE "recent"]
    /\ UNCHANGED << now, total, ledger, verified, cacheAvailable, cache, count >>
    /\ UNCHANGED pageVars

\* the SELECT on turnstile_verified, and the check that a token is there
ClickRecentVerify(r) ==
    /\ click[r].pc = "recent"
    /\ IF recentVerify(hashIP(click[r].ip))
       THEN click' = [click EXCEPT ![r].pc = "insert"]
       ELSE IF tokenMissing(click[r].token)
            THEN click' = [click EXCEPT ![r].pc = "done", ![r].status = 400,
                                        ![r].needToken = TRUE]
            ELSE click' = [click EXCEPT ![r].pc = "verify", ![r].needToken = TRUE]
    /\ UNCHANGED << now, total, ledger, verified, cacheAvailable, cache, count >>
    /\ UNCHANGED pageVars

\* the verification record written before the answer of the service is looked at
ClickVerifyMarkFirst(r, transport) ==
    /\ click[r].pc = "verify"
    /\ verified' = markVerified(hashIP(click[r].ip))
    /\ IF verifyTurnstile(click[r].token, transport)
       THEN click' = [click EXCEPT ![r].pc = "insert", ![r].asked = TRUE,
                                   ![r].marked = TRUE]
       ELSE click' = [click EXCEPT ![r].pc = "done", ![r].status = 403,
                                   ![r].asked = TRUE, ![r].marked = TRUE]
    /\ UNCHANGED << now, total, ledger, cacheAvailable, cache, count >>
    /\ UNCHANGED pageVars

\* the call to the verification service
ClickVerify(r, transport) ==
    /\ click[r].pc = "verify"
    /\ IF verifyTurnstile(click[r].token, transport)
       THEN click' = [click EXCEPT ![r].pc = "mark", ![r].asked = TRUE]
       ELSE click' = [click EXCEPT ![r].pc = "done", ![r].status = 403,
                                   ![r].asked = TRUE]
    /\ UNCHANGED << now, total, ledger, verified, cacheAvailable, cache, count >>
    /\ UNCHANGED pageVars

\* INSERT OR REPLACE INTO turnstile_verified
ClickMarkVerified(r) ==
    /\ click[r].pc = "mark"
    /\ verified' = markVerified(hashIP(click[r].ip))
    /\ click' = [click EXCEPT ![r].pc = "insert", ![r].marked = TRUE]
    /\ UNCHANGED << now, total, ledger, cacheAvailable, cache, count >>
    /\ UNCHANGED pageVars

\* an unconditional INSERT, the cap looked at afterwards
ClickInsertThenCheck(r) ==
    /\ click[r].pc = "insert"
    /\ LET h == hashIP(click[r].ip)
           c == click[r].count
       IN  /\ ledger' = Append(ledger,
                    [count |-> c, ip_hash |-> h, created_at |-> now, req |-> r])
           /\ IF underCap(h, c)
              THEN click' = [click EXCEPT ![r].pc = "update"]
              ELSE Respond(r, 429)
    /\ UNCHANGED << now, total, verified, cacheAvailable, cache, count >>
    /\ UNCHANGED pageVars

\* the conditional INSERT: one statement, so the sum and the insert are one step
ClickInsert(r) ==
    /\ click[r].pc = "insert"
    /\ LET h == hashIP(click[r].ip)
           c == click[r].count
       IN  IF underCap(h, c)
           THEN /\ ledger' = Append(ledger,
                        [count |-> c, ip_hash |-> h, created_at |-> now, req |-> r])
                /\ click' = [click EXCEPT ![r].pc = "update"]
           ELSE /\ ledger' = ledger
                /\ Respond(r, 429)
    /\ UNCHANGED << now, total, verified, cacheAvailable, cache, count >>
    /\ UNCHANGED pageVars

\* the SELECT of the batch placed before its UPDATE
ClickUpdateSelectFirst(r) ==
    /\ click[r].pc = "update"
    /\ total' = total + click[r].count
    /\ click' = [click EXCEPT ![r].newTotal = total, ![r].before = total,
                              ![r].added = click[r].added + click[r].count,
                              ![r].pc = "done", ![r].status = 200,
                              ![r].purgedAt = now]
    /\ UNCHANGED << now, ledger, verified, cacheAvailable, cache, count >>
    /\ UNCHANGED pageVars

\* DB.batch([UPDATE counter SET total = total + ?, SELECT total]): one
\* transaction.  Without the cache API the try block throws at once and the
\* response { ok: true, total: newTotal } follows without another await.
ClickUpdate(r) ==
    /\ click[r].pc = "update"
    /\ total' = total + click[r].count
    /\ LET req == [click[r] EXCEPT !.newTotal = total', !.before = total,
                                   !.added = click[r].added + click[r].count]
       IN  IF cacheAvailable
           THEN click' = [click EXCEPT ![r] = [req EXCEPT !.pc = "purge", !.i = 1]]
           ELSE click' = [click EXCEPT ![r] =
                    [req EXCEPT !.pc = "done", !.status = 200, !.purgedAt = now]]
    /\ UNCHANGED << now, ledger, verified, cacheAvailable, cache, count >>
    /\ UNCHANGED pageVars

\* one turn of the loop over [...ALLOWED_ORIGINS, "none"]; after the last
\* delete the response { ok: true, total: newTotal } is returned
ClickPurge(r) ==
    /\ click[r].pc = "purge"
    /\ cache' = cacheDelete(cacheUrl(PurgeOrigins[click[r].i]))
    /\ IF click[r].i < Len(PurgeOrigins)
       THEN click' = [click EXCEPT ![r].i = click[r].i + 1]
       ELSE click' = [click EXCEPT ![r].i = click[r].i + 1, ![r].pc = "done",
                                   ![r].status = 200, ![r].purgedAt = now]
    /\ UNCHANGED << now, total, ledger, verified, cacheAvailable, count >>
    /\ UNCHANGED pageVars

\* the batch rejects (the store is unavailable): the handler throws and the
\* request ends with a 500, its ledger row written and counter.total not
\* incremented
ClickStoreFault(r) ==
    /\ click[r].pc = "update"
    /\ Respond(r, 500)
    /\ UNCHANGED << now, total, ledger, verified, cacheAvailable, cache, count >>
    /\ UNCHANGED pageVars

\* -------------------------------------------------------------- GET /count
\* the requests that had returned ok: true when a read is issued
returnedOk == {r \in ClickIds : click[r].pc = "done" /\ click[r].status = 200}

\* the time since the last invalidation that outdated an entry, or -1
sinceInvalidation(e) ==
    LET W == {r \in returnedOk : click[r].newTotal > e.total}
    IN  IF W = {} THEN -1 ELSE now - Max({click[r].purgedAt : r \in W})

\* cache.match under the key of the request's Origin; a hit is returned as
\* it is, and without the cache API the lookup is skipped
CountMatch(g, header) ==
    /\ count[g].pc = "idle"
    /\ \A q \in CountIds : q < g => count[q].pc # "idle"
    /\ LET origin == originOf(header)
           hits == IF cacheAvailable THEN cacheMatch(cacheUrl(origin)) ELSE {}
           req == [count[g] EXCEPT !.origin = origin, !.returned = returnedOk]
       IN  IF hits # {}
           THEN LET e == CHOOSE e \in hits : TRUE
                IN  count' = [count EXCEPT ![g] =
                        [req EXCEPT !.pc = "done", !.status = 200, !.total = e.total,
                                    !.hit = TRUE, !.age = now - e.putAt,
                                    !.stale = e.total < total,
                                    !.sinceInval = sinceInvalidation(e),
                                    !.after = e.after]]
           ELSE count' = [count EXCEPT ![g] = [req EXCEPT !.pc = "select"]]
    /\ UNCHANGED << now, total, ledger, verified, cacheAvailable, cache, click >>
    /\ UNCHANGED pageVars

\* SELECT total FROM counter WHERE id = 1; without the cache API the
\* response follows without another await
CountSelect(g) ==
    /\ count[g].pc = "select"
    /\ IF cacheAvailable
       THEN count' = [count EXCEPT ![g].pc = "put", ![g].read = total]
       ELSE count' = [count EXCEPT ![g].pc = "done", ![g].read = total,
                                   ![g].status = 200, ![g].total = total]
    /\ UNCHANGED << now, total, ledger, verified, cacheAvailable, cache, click >>
    /\ UNCHANGED pageVars

\* cache.put(new Request(cacheUrl), response.clone()), then the response
CountPut(g) ==
    /\ count[g].pc = "put"
    /\ LET key == cacheUrl(count[g].origin)
       IN  cache' = cacheDelete(key) \cup
                {[key |-> key, total |-> count[g].read, putAt |-> now,
                  after |-> {r \in ClickIds : hasPurged(r, key)}]}
    /\ count' = [count EXCEPT ![g].pc = "done", ![g].status = 200,
                              ![g].total = count[g].read]
    /\ UNCHANGED << now, total, ledger, verified, cacheAvailable, click >>
    /\ UNCHANGED pageVars

\* ---------------------------------------------------------------- the clock
\* a second passes; the cache drops the entries that are no longer fresh
Tick ==
    /\ now < MaxTime
    /\ now' = now + 1
    /\ cache' = {e \in cache : fresh(e, now + 1)}
    /\ UNCHANGED << total, ledger, verified, cacheAvailable, click, count >>
    /\ UNCHANGED pageVars

\* -------------------------------------------------------------- the inputs
ValidCounts == {Num(160), Num(240)}
InvalidCounts == {Num(0), Num(3), Num(500), NotNum("string"), NotNum("undefined")}
Tokens == {Absent, "", "bad", "good"}

ClickInputs ==
    [ip : {Absent}, json : {TRUE}, count : ValidCounts, token : {Absent}]
    \cup [ip : {RemoteIP}, json : {TRUE}, count : ValidCounts, token : {"good"}]
    \cup [ip : {RemoteIP}, json : {TRUE}, count : {Num(160)}, token : Tokens]
    \cup [ip : {Absent, RemoteIP}, json : {TRUE}, count : InvalidCounts, token : {"good"}]
    \cup [ip : {RemoteIP}, json : {FALSE}, count : {NotNum("undefined")}, token : {Absent}]

CacheClickInputs ==
    [ip : {Absent}, json : {TRUE}, count : {Num(160)}, token : {Absent}]

OriginHeaders == {Absent, ALLOWED_ORIGINS[1], OtherOrigin}

ClickSteps(r) ==
    \/ ClickRecentVerify(r)
    \/ \E transport \in {"ok", "error"} : ClickVerify(r, transport)
    \/ ClickMarkVerified(r)
    \/ ClickInsert(r)
    \/ ClickUpdate(r)
    \/ ClickStoreFault(r)

\* POST /click against the store
Next ==
    \/ \E r \in ClickIds : \E in \in ClickInputs : ClickArrive(r, in)
    \/ \E r \in ClickIds : ClickSteps(r)
    \/ Tick

Spec == Init /\ [][Next]_vars

\* ------------------------------------- POST /click with the cap on batches
\* the handler that caps the number of batches (rows) of an identity and
\* asks the verification service for every request of a non-exempt address

\* rateCheck.cnt >= 10
BatchCap == 10

\* SELECT COUNT(*) FROM click_batches
\*   WHERE ip_hash = ? AND created_at > datetime('now', '-5 seconds')
windowCount(h) ==
    Len(SelectSeq(ledger, LAMBDA row : row.ip_hash = h /\ row.created_at > now - RateWindow))

\* request.json(), the validation of count, and the check that a token is there
CountCapArrive(r, in) ==
    /\ click[r].pc = "idle"
    /\ \A q \in ClickIds : q < r => click[q].pc # "idle"
    /\ IF ~in.json
       THEN Respond(r, 500)
       ELSE IF countInvalid(in.count)
       THEN Respond(r, 400)
       ELSE LET ip == IF in.ip = Absent THEN "unknown" ELSE in.ip
                req == [click[r] EXCEPT !.ip = ip, !.token = in.token,
                                        !.count = in.count.twice \div 2]
            IN  IF isLocal(ip)
                THEN click' = [click EXCEPT ![r] = [req EXCEPT !.pc = "ratecheck"]]
                ELSE IF tokenMissing(in.token)
                THEN click' = [click EXCEPT ![r] =
                         [req EXCEPT !.pc = "done", !.status = 400, !.needToken = TRUE]]
                ELSE click' = [click EXCEPT ![r] =
                         [req EXCEPT !.pc = "siteverify", !.needToken = TRUE]]
    /\ UNCHANGED << now, total, ledger, verified, cacheAvailable, cache, count >>
    /\ UNCHANGED pageVars

\* verifyTurnstile without a try: a fetch or a parse that throws ends the
\* request with the runtime's 500
CountCapVerify(r, transport) ==
    /\ click[r].pc = "siteverify"
    /\ IF transport # "ok"
       THEN click' = [click EXCEPT ![r].pc = "done", ![r].status = 500,
                                   ![r].asked = TRUE]
       ELSE IF siteverify(click[r].token)
       THEN click' = [click EXCEPT ![r].pc = "ratecheck", ![r].asked = TRUE]
       ELSE click' = [click EXCEPT ![r].pc = "done", ![r].status = 403,
                                   ![r].asked = TRUE]
    /\ UNCHANGED << now, total, ledger, verified, cacheAvailable, cache, count >>
    /\ UNCHANGED pageVars

\* the SELECT COUNT(*) and its comparison with the cap
CountCapRateCheck(r) ==
    /\ click[r].pc = "ratecheck"
    /\ IF windowCount(hashIP(click[r].ip)) >= BatchCap
       THEN Respond(r, 429)
       ELSE click' = [click EXCEPT ![r].pc = "batch"]
    /\ UNCHANGED << now, total, ledger, verified, cacheAvailable, cache, count >>
    /\ UNCHANGED pageVars

\* DB.batch([INSERT INTO click_batches, UPDATE counter, SELECT total]): one
\* transaction; without the cache API the response follows at once
CountCapBatch(r) ==
    /\ click[r].pc = "batch"
    /\ ledger' = Append(ledger,
            [count |-> click[r].count, ip_hash |-> hashIP(click[r].ip),
             created_at |-> now, req |-> r])
    /\ total' = total + click[r].count
    /\ click' = [click EXCEPT ![r].pc = "done", ![r].status = 200,
                              ![r].newTotal = total', ![r].before = total,
                              ![r].added = click[r].count, ![r].purgedAt = now]
    /\ UNCHANGED << now, verified, cacheAvailable, cache, count >>
    /\ UNCHANGED pageVars

\* a ledger row of one click of an exempt address, written at second 0
EarlierBatch == [count |-> 1, ip_hash |-> hashIP("unknown"), created_at |-> 0, req |-> 0]

\* the store after EarlierBatches or BatchCap accepted batches of the
\* exempt identity in the first second
InitCountCap ==
    /\ InitRequests
    /\ \E n \in {EarlierBatches, BatchCap} : ledger = [k \in 1 .. n |-> EarlierBatch]
    /\ total = PreTotal + SumCounts(ledger)
    /\ verified = {}
    /\ cacheAvailable = FALSE

NextCountCap ==
    \/ \E r \in ClickIds : \E in \in ClickInputs : CountCapArrive(r, in)
    \/ \E r \in ClickIds : \E transport \in {"ok", "error"} : CountCapVerify(r, transport)
    \/ \E r \in ClickIds : CountCapRateCheck(r)
    \/ \E r \in ClickIds : CountCapBatch(r)
    \/ Tick

SpecCountCap == InitCountCap /\ [][NextCountCap]_vars

\* POST /click and GET /count against the store and the edge cache
NextCache ==
    \/ \E r \in 1 .. MaxCacheClicks : \E in \in CacheClickInputs : ClickArrive(r, in)
    \/ \E r \in ClickIds : ClickInsert(r)
    \/ \E r \in ClickIds : ClickUpdate(r)
    \/ \E r \in ClickIds : ClickPurge(r)
    \/ \E g \in CountIds : \E header \in OriginHeaders : CountMatch(g, header)
    \/ \E g \in CountIds : CountSelect(g)
    \/ \E g \in CountIds : CountPut(g)
    \/ Tick

SpecCache == InitCache /\ [][NextCache]_vars

\* -------------------------------------------------------- useAnimatedCount
\* the hook's parameter; App passes POLL_INTERVAL_MS
duration == 2000

\* Math.round(num / den) for den > 0: the nearest integer, halves upwards
round(num, den) == (2 * num + den) \div (2 * den)

Min(a, b) == IF a < b THEN a ELSE b

\* setDisplayCount(displayRef.current)
setDisplayCount(n) == displayCount' = << n >>

\* startAnimation(fromDisplay, toTarget): a frame is requested unless
\* rafRef holds the id of one
startAnimation(fromDisplay, toTarget) ==
    /\ animStartRef' = perfNow
    /\ animStartDisplayRef' = fromDisplay
    /\ animTargetRef' = toTarget
    /\ rafRef' = TRUE
    /\ frameQueued' = (IF rafRef THEN frameQueued ELSE TRUE)

\* requestAnimationFrame runs its callback once per frame of the page, and
\* the frames of the page are FrameMs apart
frameDue == perfNow % FrameMs = 0 /\ frameAt # perfNow

\* the frame's display written without the comparison with the value shown
tickUnguarded(jitter) ==
    /\ frameQueued
    /\ frameDue
    /\ frameAt' = perfNow
    /\ LET elapsed == perfNow - animStartRef
           totalGap == animTargetRef - animStartDisplayRef
       IN  IF totalGap <= 0 \/ elapsed >= duration
           THEN /\ displayRef' = targetRef
                /\ setDisplayCount(targetRef)
                /\ rafRef' = FALSE
                /\ frameQueued' = FALSE
           ELSE LET targetDisplay == animStartDisplayRef + round(totalGap * elapsed, duration)
                    newDisplay == Min(targetDisplay + jitter, targetRef)
                IN  /\ displayRef' = newDisplay
                    /\ setDisplayCount(newDisplay)
                    /\ rafRef' = TRUE
                    /\ frameQueued' = TRUE
    /\ UNCHANGED << perfNow, targetRef, initializedRef, animStartRef,
                    animStartDisplayRef, animTargetRef, lastCall, frameMissed,
                    mounted >>
    /\ UNCHANGED serverVars

\* the frame's display computed without the cap at the current target
tickUncapped(jitter) ==
    /\ frameQueued
    /\ frameDue
    /\ frameAt' = perfNow
    /\ LET elapsed == perfNow - animStartRef
           totalGap == animTargetRef - animStartDisplayRef
       IN  IF totalGap <= 0 \/ elapsed >= duration
           THEN /\ IF displayRef < targetRef
                   THEN displayRef' = targetRef /\ setDisplayCount(targetRef)
                   ELSE UNCHANGED << displayRef, displayCount >>
                /\ rafRef' = FALSE
                /\ frameQueued' = FALSE
           ELSE LET targetDisplay == animStartDisplayRef + round(totalGap * elapsed, duration)
                    newDisplay == targetDisplay + jitter
                IN  /\ IF newDisplay > displayRef
                       THEN displayRef' = newDisplay /\ setDisplayCount(newDisplay)
                       ELSE UNCHANGED << displayRef, displayCount >>
                    /\ rafRef' = TRUE
                    /\ frameQueued' = TRUE
    /\ UNCHANGED << perfNow, targetRef, initializedRef, animStartRef,
                    animStartDisplayRef, animTargetRef, lastCall, frameMissed,
                    mounted >>
    /\ UNCHANGED serverVars

\* tick(now): the requested animation frame runs; jitter is
\* (Math.random() < 0.3 ? 1 : 0)
tick(jitter) ==
    /\ frameQueued
    /\ frameDue
    /\ frameAt' = perfNow
    /\ LET elapsed == perfNow - animStartRef
           totalGap == animTargetRef - animStartDisplayRef
       IN  IF totalGap <= 0 \/ elapsed >= duration
           THEN /\ IF displayRef < targetRef
                   THEN displayRef' = targetRef /\ setDisplayCount(targetRef)
                   ELSE UNCHANGED << displayRef, displayCount >>
                /\ rafRef' = FALSE
                /\ frameQueued' = FALSE
           ELSE LET targetDisplay == animStartDisplayRef + round(totalGap * elapsed, duration)
                    jitteredTarget == targetDisplay + jitter
                    newDisplay == Min(jitteredTarget, targetRef)
                IN  /\ IF newDisplay > displayRef
                       THEN displayRef' = newDisplay /\ setDisplayCount(newDisplay)
                       ELSE UNCHANGED << displayRef, displayCount >>
                    /\ rafRef' = TRUE
                    /\ frameQueued' = TRUE
    /\ UNCHANGED << perfNow, targetRef, initializedRef, animStartRef,
                    animStartDisplayRef, animTargetRef, lastCall, frameMissed,
                    mounted >>
    /\ UNCHANGED serverVars

\* setTarget returning early only for a target strictly below the current one
setTargetStrict(newTarget) ==
    /\ lastCall' = [op |-> "setTarget", arg |-> newTarget, target |-> targetRef]
    /\ UNCHANGED << perfNow, frameAt, mounted >>
    /\ IF newTarget < targetRef
       THEN UNCHANGED << hookVars, frameMissed, frameQueued >>
       ELSE /\ targetRef' = newTarget
            /\ IF ~initializedRef
               THEN /\ initializedRef' = TRUE
                    /\ displayRef' = newTarget
                    /\ setDisplayCount(newTarget)
                    /\ UNCHANGED << rafRef, animStartRef, animStartDisplayRef, animTargetRef,
                                    frameMissed, frameQueued >>
               ELSE /\ startAnimation(displayRef, newTarget)
                    /\ frameMissed' = FALSE
                    /\ UNCHANGED << initializedRef, displayRef, displayCount >>
    /\ UNCHANGED serverVars

\* setTarget(newTarget), with startAnimation(displayRef.current, newTarget)
setTarget(newTarget) ==
    /\ lastCall' = [op |-> "setTarget", arg |-> newTarget, target |-> targetRef]
    /\ UNCHANGED << perfNow, frameAt, mounted >>
    /\ IF newTarget <= targetRef
       THEN UNCHANGED << hookVars, frameMissed, frameQueued >>
       ELSE /\ targetRef' = newTarget
            /\ IF ~initializedRef
               THEN /\ initializedRef' = TRUE
                    /\ displayRef' = newTarget
                    /\ setDisplayCount(newTarget)
                    /\ UNCHANGED << rafRef, animStartRef, animStartDisplayRef, animTargetRef,
                                    frameMissed, frameQueued >>
               ELSE /\ startAnimation(displayRef, newTarget)
                    /\ frameMissed' = FALSE
                    /\ UNCHANGED << initializedRef, displayRef, displayCount >>
    /\ UNCHANGED serverVars

\* addImmediate leaving the animation's start value where it was
addImmediateAnchorKept(n) ==
    /\ targetRef' = targetRef + n
    /\ displayRef' = displayRef + n
    /\ setDisplayCount(displayRef + n)
    /\ initializedRef' = TRUE
    /\ animTargetRef' = targetRef + n
    /\ lastCall' = [op |-> "addImmediate", arg |-> n, target |-> targetRef]
    /\ UNCHANGED << perfNow, rafRef, animStartRef, animStartDisplayRef, frameAt,
                    frameMissed, mounted, frameQueued >>
    /\ UNCHANGED serverVars

\* addImmediate(n)
addImmediate(n) ==
    /\ targetRef' = targetRef + n
    /\ displayRef' = displayRef + n
    /\ setDisplayCount(displayRef + n)
    /\ initializedRef' = TRUE
    /\ animStartDisplayRef' = animStartDisplayRef + n
    /\ animTargetRef' = targetRef + n
    /\ lastCall' = [op |-> "addImmediate", arg |-> n, target |-> targetRef]
    /\ UNCHANGED << perfNow, rafRef, animStartRef, frameAt, frameMissed, mounted,
                    frameQueued >>
    /\ UNCHANGED serverVars

\* time passes between two events of the page
PageClock(ms) ==
    /\ perfNow + ms <= MaxPerfNow
    /\ perfNow' = perfNow + ms
    /\ frameMissed' = (frameMissed \/ (frameQueued /\ frameDue))
    /\ UNCHANGED << hookVars, lastCall, frameAt, mounted, frameQueued >>
    /\ UNCHANGED serverVars

AnimClock == PageClock(ClockMs)

\* own clicks a page adds in one call
OwnClicks == 1 .. 2

InitAnim ==
    /\ InitRequests
    /\ ledger = << >>
    /\ total = PreTotal
    /\ verified = {}
    /\ cacheAvailable = FALSE

\* the totals a poll or a submission hands to setTarget, and own clicks
NextAnim ==
    \/ \E newTarget \in 0 .. MaxTarget : setTarget(newTarget) /\ UNCHANGED appVars
    \/ \E n \in OwnClicks :
          targetRef + n <= MaxTarget /\ addImmediate(n) /\ UNCHANGED appVars
    \/ \E jitter \in {0, 1} : tick(jitter) /\ UNCHANGED appVars
    \/ AnimClock /\ UNCHANGED appVars

SpecAnim == InitAnim /\ [][NextAnim]_vars

\* ----------------------------------------------------------------- App.tsx
\* clickTimestampsRef.current.filter((t) => now - t < 1000)
recentClicks(stamps, t0) ==
    LET recent(t) == t0 - t < ClickWindowMs
    IN  SelectSeq(stamps, recent)

\* Math.max(0, n)
AtLeastZero(n) == IF n > 0 THEN n ELSE 0

\* handleClick without the test of the cap
handleClickUncapped ==
    /\ clickTimestampsRef' = Append(clickTimestampsRef, perfNow)
    /\ pendingRef' = pendingRef + 1
    /\ localDeltaRef' = localDeltaRef + 1
    /\ addImmediate(1)
    /\ countedAt' = Append(countedAt, perfNow)
    /\ UNCHANGED << rateLimitedUntilRef, post, poll, dropped >>

\* handleClick: a click on the button
handleClick ==
    IF Len(recentClicks(clickTimestampsRef, perfNow)) >= CLICK_CAP_PER_SECOND
    THEN /\ dropped' = dropped + 1
         /\ UNCHANGED << pendingRef, localDeltaRef, rateLimitedUntilRef,
                         clickTimestampsRef, post, poll, countedAt >>
         /\ UNCHANGED << serverVars, animVars >>
    ELSE /\ clickTimestampsRef' = Append(clickTimestampsRef, perfNow)
         /\ pendingRef' = pendingRef + 1
         /\ localDeltaRef' = localDeltaRef + 1
         /\ addImmediate(1)
         /\ countedAt' = Append(countedAt, perfNow)
         /\ UNCHANGED << rateLimitedUntilRef, post, poll, dropped >>

\* the 200 ms interval that keeps the clicks of the last second
trackClicks ==
    /\ clickTimestampsRef' = recentClicks(clickTimestampsRef, perfNow)
    /\ UNCHANGED << pendingRef, localDeltaRef, rateLimitedUntilRef, post, poll,
                    countedAt, dropped >>
    /\ UNCHANGED << serverVars, animVars >>

\* the request a callback hands to fetch
sent(p, by, batch) ==
    [post EXCEPT ![p] = [IdlePost EXCEPT !.pc = "sent", !.by = by, !.batch = batch]]

\* the batch interval sending all it has buffered in one request
batchSenderUncapped(p) ==
    /\ post[p].pc = "idle"
    /\ \A q \in PostIds : q < p => post[q].pc # "idle"
    /\ IF pendingRef <= 0 \/ perfNow < rateLimitedUntilRef
       THEN UNCHANGED << pendingRef, post >>
       ELSE /\ pendingRef' = 0
            /\ post' = sent(p, "sender", pendingRef)
    /\ UNCHANGED << localDeltaRef, rateLimitedUntilRef, clickTimestampsRef, poll,
                    countedAt, dropped >>
    /\ UNCHANGED << serverVars, animVars >>

\* the callback of the batch interval, up to its await of fetch
batchSender(p) ==
    /\ post[p].pc = "idle"
    /\ \A q \in PostIds : q < p => post[q].pc # "idle"
    /\ IF pendingRef <= 0 \/ perfNow < rateLimitedUntilRef
       THEN UNCHANGED << pendingRef, post >>
       ELSE LET batch == Min(pendingRef, MaxBatch)
            IN  /\ pendingRef' = pendingRef - batch
                /\ post' = sent(p, "sender", batch)
    /\ UNCHANGED << localDeltaRef, rateLimitedUntilRef, clickTimestampsRef, poll,
                    countedAt, dropped >>
    /\ UNCHANGED << serverVars, animVars >>

\* flush: the page is hidden or about to unload
flush(p) ==
    /\ post[p].pc = "idle"
    /\ \A q \in PostIds : q < p => post[q].pc # "idle"
    /\ IF pendingRef <= 0
       THEN UNCHANGED << pendingRef, post >>
       ELSE LET batch == Min(pendingRef, MaxBatch)
            IN  /\ pendingRef' = pendingRef - batch
                /\ post' = sent(p, "flush", batch)
    /\ UNCHANGED << localDeltaRef, rateLimitedUntilRef, clickTimestampsRef, poll,
                    countedAt, dropped >>
    /\ UNCHANGED << serverVars, animVars >>

\* what becomes of a request of the page: the worker's answers, with the
\* batch applied exactly when it answers ok, and a fetch that rejects
\* before the request reached the worker or after the worker applied it
PostOutcomes ==
    {[status |-> 200, rejects |-> FALSE, applied |-> TRUE],
     [status |-> 400, rejects |-> FALSE, applied |-> FALSE],
     [status |-> 403, rejects |-> FALSE, applied |-> FALSE],
     [status |-> 429, rejects |-> FALSE, applied |-> FALSE],
     [status |-> 500, rejects |-> FALSE, applied |-> FALSE],
     [status |-> 0, rejects |-> TRUE, applied |-> FALSE],
     [status |-> 0, rejects |-> TRUE, applied |-> TRUE]}

\* the network and the worker deal with a request of the page
clickServed(p, outcome) ==
    /\ post[p].pc = "sent"
    /\ total' = IF outcome.applied THEN total + post[p].batch ELSE total
    /\ post' = [post EXCEPT ![p].pc = "answered",
                            ![p].status = outcome.status,
                            ![p].rejects = outcome.rejects,
                            ![p].applied = outcome.applied,
                            ![p].total = total']
    /\ UNCHANGED << now, ledger, verified, cacheAvailable, cache, click, count >>
    /\ UNCHANGED << pendingRef, localDeltaRef, rateLimitedUntilRef,
                    clickTimestampsRef, poll, countedAt, dropped >>
    /\ UNCHANGED animVars

\* the batch interval's callback giving every batch that was not accepted
\* back to the buffer
batchSenderResponseRequeueAll(p) ==
    /\ post[p].pc = "answered"
    /\ post[p].by = "sender"
    /\ post' = [post EXCEPT ![p] = DonePost(post[p])]
    /\ IF ~post[p].rejects /\ post[p].status = 200
       THEN /\ localDeltaRef' = AtLeastZero(localDeltaRef - post[p].batch)
            /\ setTarget(post[p].total + localDeltaRef')
            /\ UNCHANGED << pendingRef, rateLimitedUntilRef >>
       ELSE /\ pendingRef' = pendingRef + post[p].batch
            /\ UNCHANGED << localDeltaRef, rateLimitedUntilRef >>
            /\ UNCHANGED << serverVars, animVars >>
    /\ UNCHANGED << clickTimestampsRef, poll, countedAt, dropped >>

\* the batch interval's callback handing the total it was sent to setTarget
\* before it takes the batch off localDeltaRef
batchSenderResponseStaleDelta(p) ==
    /\ post[p].pc = "answered"
    /\ post[p].by = "sender"
    /\ post' = [post EXCEPT ![p] = DonePost(post[p])]
    /\ IF post[p].rejects
       THEN /\ pendingRef' = pendingRef + post[p].batch
            /\ UNCHANGED << localDeltaRef, rateLimitedUntilRef >>
            /\ UNCHANGED << serverVars, animVars >>
       ELSE IF post[p].status = 200
       THEN /\ localDeltaRef' = AtLeastZero(localDeltaRef - post[p].batch)
            /\ setTarget(post[p].total + localDeltaRef)
            /\ UNCHANGED << pendingRef, rateLimitedUntilRef >>
       ELSE IF post[p].status = 429
       THEN /\ pendingRef' = pendingRef + post[p].batch
            /\ rateLimitedUntilRef' = perfNow + CooldownMs
            /\ UNCHANGED localDeltaRef
            /\ UNCHANGED << serverVars, animVars >>
       ELSE /\ localDeltaRef' = AtLeastZero(localDeltaRef - post[p].batch)
            /\ UNCHANGED << pendingRef, rateLimitedUntilRef >>
            /\ UNCHANGED << serverVars, animVars >>
    /\ UNCHANGED << clickTimestampsRef, poll, countedAt, dropped >>

\* the callback of the batch interval, from its await of fetch on
batchSenderResponse(p) ==
    /\ post[p].pc = "answered"
    /\ post[p].by = "sender"
    /\ post' = [post EXCEPT ![p] = DonePost(post[p])]
    /\ IF post[p].rejects
       THEN /\ pendingRef' = pendingRef + post[p].batch
            /\ UNCHANGED << localDeltaRef, rateLimitedUntilRef >>
            /\ UNCHANGED << serverVars, animVars >>
       ELSE IF post[p].status = 200
       THEN /\ localDeltaRef' = AtLeastZero(localDeltaRef - post[p].batch)
            /\ setTarget(post[p].total + localDeltaRef')
            /\ UNCHANGED << pendingRef, rateLimitedUntilRef >>
       ELSE IF post[p].status = 429
       THEN /\ pendingRef' = pendingRef + post[p].batch
            /\ rateLimitedUntilRef' = perfNow + CooldownMs
            /\ UNCHANGED localDeltaRef
            /\ UNCHANGED << serverVars, animVars >>
       ELSE /\ localDeltaRef' = AtLeastZero(localDeltaRef - post[p].batch)
            /\ UNCHANGED << pendingRef, rateLimitedUntilRef >>
            /\ UNCHANGED << serverVars, animVars >>
    /\ UNCHANGED << clickTimestampsRef, poll, countedAt, dropped >>

\* the fetch of flush settles: .catch(() => {}) and nothing else
flushResponse(p) ==
    /\ post[p].pc = "answered"
    /\ post[p].by = "flush"
    /\ post' = [post EXCEPT ![p] = DonePost(post[p])]
    /\ UNCHANGED << pendingRef, localDeltaRef, rateLimitedUntilRef,
                    clickTimestampsRef, poll, countedAt, dropped >>
    /\ UNCHANGED << serverVars, animVars >>

\* fetchCount, up to its await of fetch
fetchCount ==
    /\ poll.pc = "idle"
    /\ poll' = [IdlePoll EXCEPT !.pc = "sent"]
    /\ UNCHANGED << pendingRef, localDeltaRef, rateLimitedUntilRef,
                    clickTimestampsRef, post, countedAt, dropped >>
    /\ UNCHANGED << serverVars, animVars >>

\* the network and the worker deal with the poll
countServed(ok) ==
    /\ poll.pc = "sent"
    /\ poll' = [pc |-> "answered", ok |-> ok, total |-> IF ok THEN total ELSE 0]
    /\ UNCHANGED << pendingRef, localDeltaRef, rateLimitedUntilRef,
                    clickTimestampsRef, post, countedAt, dropped >>
    /\ UNCHANGED << serverVars, animVars >>

\* fetchCount, from its await of fetch on
fetchCountResponse ==
    /\ poll.pc = "answered"
    /\ poll' = IdlePoll
    /\ IF poll.ok
       THEN setTarget(poll.total + localDeltaRef)
       ELSE UNCHANGED << serverVars, animVars >>
    /\ UNCHANGED << pendingRef, localDeltaRef, rateLimitedUntilRef,
                    clickTimestampsRef, post, countedAt, dropped >>

\* a page that has counted clicks at the instants `stamps` and holds them
\* all in its buffer
CountedAt(stamps) ==
    LET n == Len(stamps)
    IN
    /\ perfNow = 0
    /\ displayCount = IF n = 0 THEN << >> ELSE << n >>
    /\ targetRef = n
    /\ displayRef = n
    /\ initializedRef = (n > 0)
    /\ rafRef = FALSE
    /\ animStartRef = 0
    /\ animStartDisplayRef = n
    /\ animTargetRef = n
    /\ lastCall = IF n = 0 THEN NoCall
                  ELSE [op |-> "addImmediate", arg |-> 1, target |-> n - 1]
    /\ frameAt = -1
    /\ frameMissed = FALSE
    /\ mounted = TRUE
    /\ frameQueued = FALSE
    /\ pendingRef = n
    /\ localDeltaRef = n
    /\ clickTimestampsRef = recentClicks(stamps, 0)
    /\ countedAt = stamps
    /\ post = [p \in PostIds |-> IdlePost]
    /\ poll = IdlePoll
    /\ dropped = 0

\* a page that has counted n clicks at the instant `at` and holds them in
\* its buffer
CountedEarlier(n, at) == CountedAt([i \in 1 .. n |-> at])

InitStore ==
    /\ InitWorker
    /\ ledger = << >>
    /\ total = PreTotal
    /\ verified = {}
    /\ cacheAvailable = FALSE

\* a page that has just mounted, or one whose one counted click came back
\* with a 429 and waits for the end of its cooldown
InitApp ==
    /\ InitStore
    /\ \/ CountedEarlier(0, 0) /\ rateLimitedUntilRef = 0
       \/ /\ CountedEarlier(1, EarlierCooldownEnds - CooldownMs)
          /\ rateLimitedUntilRef = EarlierCooldownEnds

\* the clicks counted since the first instant of the run
countedInRun == Cardinality({i \in DOMAIN countedAt : countedAt[i] >= 0})

NextApp ==
    \/ countedInRun < MaxPageClicks /\ handleClick
    \/ \E p \in PostIds : batchSender(p)
    \/ \E p \in PostIds : flush(p)
    \/ \E p \in PostIds : \E outcome \in PostOutcomes : clickServed(p, outcome)
    \/ \E p \in PostIds : batchSenderResponse(p)
    \/ \E p \in PostIds : flushResponse(p)
    \/ fetchCount
    \/ \E ok \in BOOLEAN : countServed(ok)
    \/ fetchCountResponse
    \/ \E jitter \in {0, 1} : tick(jitter) /\ UNCHANGED appVars
    \/ perfNow < MaxAppNow /\ PageClock(FrameMs) /\ UNCHANGED appVars

SpecApp == InitApp /\ [][NextApp]_vars

\* the clean-ups of the component: the hook cancels the frame whose id
\* rafRef holds and leaves rafRef as it is; App clears its intervals and
\* removes its listeners
unmount ==
    /\ mounted
    /\ mounted' = FALSE
    /\ frameQueued' = (IF rafRef THEN FALSE ELSE frameQueued)
    /\ UNCHANGED << perfNow, hookVars, lastCall, frameAt, frameMissed >>
    /\ UNCHANGED << serverVars, appVars >>

\* the worker applies a batch and answers ok
Applied == [status |-> 200, rejects |-> FALSE, applied |-> TRUE]

\* a page that is unmounted at some point: its button, its intervals and its
\* listeners are gone from then on, the requests it had sent still resolve
NextUnmount ==
    \/ mounted /\ countedInRun < MaxPageClicks /\ handleClick
    \/ \E p \in PostIds : mounted /\ batchSender(p)
    \/ \E p \in PostIds : clickServed(p, Applied)
    \/ \E p \in PostIds : batchSenderResponse(p)
    \/ mounted /\ fetchCount
    \/ countServed(TRUE)
    \/ fetchCountResponse
    \/ \E jitter \in {0, 1} : tick(jitter) /\ UNCHANGED appVars
    \/ perfNow < MaxAppNow /\ PageClock(FrameMs) /\ UNCHANGED appVars
    \/ unmount

SpecUnmount == InitApp /\ [][NextUnmount]_vars

\* a page that has shown the total of its first poll and has then counted
\* one click, the last one of its user
InitConverge ==
    /\ InitStore
    /\ perfNow = 0
    /\ displayCount = << PreTotal + 1 >>
    /\ targetRef = PreTotal + 1
    /\ displayRef = PreTotal + 1
    /\ initializedRef = TRUE
    /\ rafRef = FALSE
    /\ animStartRef = 0
    /\ animStartDisplayRef = 1
    /\ animTargetRef = PreTotal + 1
    /\ lastCall = [op |-> "addImmediate", arg |-> 1, target |-> PreTotal]
    /\ frameAt = -1
    /\ frameMissed = FALSE
    /\ mounted = TRUE
    /\ frameQueued = FALSE
    /\ pendingRef = 1
    /\ localDeltaRef = 1
    /\ rateLimitedUntilRef = 0
    /\ clickTimestampsRef = << 0 >>
    /\ post = [p \in PostIds |-> IdlePost]
    /\ poll = IdlePoll
    /\ countedAt = << 0 >>
    /\ dropped = 0

\* time is followed while an animation runs; while none runs nothing in
\* this page depends on the time that passes
ConvergeClock == rafRef /\ PageClock(FrameMs) /\ UNCHANGED appVars

\* every request reaches the worker, which applies every batch and answers
\* every poll; the page may be hidden at any time
NextConverge ==
    \/ \E p \in PostIds : batchSender(p)
    \/ \E p \in PostIds : flush(p)
    \/ \E p \in PostIds : clickServed(p, Applied)
    \/ \E p \in PostIds : batchSenderResponse(p)
    \/ \E p \in PostIds : flushResponse(p)
    \/ fetchCount
    \/ countServed(TRUE)
    \/ fetchCountResponse
    \/ \E jitter \in {0, 1} : tick(jitter) /\ UNCHANGED appVars
    \/ ConvergeClock

\* the intervals keep firing (setInterval), requests are answered, promises
\* settle, requested frames run and time passes; hiding the page is up to
\* the user
FairConverge ==
    /\ WF_vars(\E p \in PostIds : batchSender(p))
    /\ WF_vars(\E p \in PostIds : clickServed(p, Applied))
    /\ WF_vars(\E p \in PostIds : batchSenderResponse(p))
    /\ WF_vars(\E p \in PostIds : flushResponse(p))
    /\ WF_vars(fetchCount)
    /\ WF_vars(countServed(TRUE))
    /\ WF_vars(fetchCountResponse)
    /\ WF_vars(\E jitter \in {0, 1} : tick(jitter) /\ UNCHANGED appVars)
    /\ WF_vars(ConvergeClock)

SpecConverge == InitConverge /\ [][NextConverge]_vars /\ FairConverge

\* a page alone with its button, near the cap
InitCap ==
    /\ InitStore
    /\ rateLimitedUntilRef = 0
    /\ CountedEarlier(EarlierClicks, 0)

NextCap ==
    \/ /\ Len(countedAt) < EarlierClicks + MaxCapClicks
       /\ dropped < MaxCapClicks
       /\ handleClick
    \/ trackClicks
    \/ AnimClock /\ UNCHANGED appVars

SpecCap == InitCap /\ [][NextCap]_vars

\* a page whose requests all failed while the button was clicked 40 times
\* a second: BacklogClicks clicks buffered, the last 40 at the first instant
InitBacklog ==
    /\ InitStore
    /\ rateLimitedUntilRef = 0
    /\ CountedAt([i \in 1 .. BacklogClicks |->
                    0 - ((BacklogClicks - i) \div CLICK_CAP_PER_SECOND) * ClickWindowMs])

NextBacklog ==
    \/ \E p \in PostIds : batchSender(p)
    \/ \E p \in PostIds : flush(p)
    \/ \E p \in PostIds : \E outcome \in PostOutcomes : clickServed(p, outcome)
    \/ \E p \in PostIds : batchSenderResponse(p)
    \/ \E p \in PostIds : flushResponse(p)
    \/ \E jitter \in {0, 1} : tick(jitter) /\ UNCHANGED appVars
    \/ perfNow < MaxAppNow /\ PageClock(FrameMs) /\ UNCHANGED appVars

SpecBacklog == InitBacklog /\ [][NextBacklog]_vars

\* ------------------------------------------------------- claims: the store
Hashes == {hashIP("unknown"), hashIP(RemoteIP)}

\* the ends of the windows a ledger row of the run can lie in
WindowEnds == (OldRowsExpireAt - RateWindow) .. (MaxTime + RateWindow)

\* the sum of count over the rows of h created in the RateWindow seconds
\* that end with second t
sumInWindow(h, t) ==
    SumCounts(SelectSeq(ledger, LAMBDA row :
        row.ip_hash = h /\ row.created_at > t - RateWindow /\ row.created_at <= t))

rowsOf(r) == {k \in DOMAIN ledger : ledger[k].req = r}

AllDone == \A r \in ClickIds : click[r].pc = "done"

\* C1: however the submissions of one identity interleave, the counts of
\* its ledger rows created within any 5 consecutive seconds (the seconds
\* t-4 .. t, what created_at > datetime('now', '-5 seconds') selects) sum
\* to at most 200.
C1_WindowVolumeCapped ==
    \A h \in Hashes : \A t \in WindowEnds : sumInWindow(h, t) <= RateCap

\* a window filled to the cap while one request of the identity is still
\* in progress and another one of it was turned away
C1_Witness ==
    \E r \in ClickIds : \E q \in ClickIds :
        /\ click[r].pc = "update"
        /\ click[q].status = 429
        /\ click[q].ip = click[r].ip
        /\ sumInWindow(hashIP(click[r].ip), now) = RateCap

\* C2: in every state, also between the steps of a request, counter.total
\* is the initial total plus the sum of count over the ledger.
C2_TotalMatchesLedger == total = PreTotal + SumCounts(ledger)

\* the step of the conditional INSERT that finds the identity over the cap
C3_RateLimitedStep ==
    \A r \in ClickIds :
        (ClickInsert(r) /\ ~underCap(hashIP(click[r].ip), click[r].count))
            => /\ click'[r].pc = "done"
               /\ click'[r].status = 429
               /\ ledger' = ledger
               /\ total' = total

\* what a request answered 429 has written
C3_RateLimitedTrace ==
    \A r \in ClickIds :
        click[r].status = 429 => rowsOf(r) = {} /\ click[r].added = 0

\* C3: when the conditional INSERT finds the identity over the cap, the
\* request ends with 429 in that step and the step changes neither the
\* ledger nor counter.total; a request answered 429 has no row in the
\* ledger and has added nothing to counter.total.
C3_RejectedHasNoEffect == []C3_RateLimitedTrace /\ [][C3_RateLimitedStep]_vars

\* a request turned away by the cap while the ledger holds rows
C3_Witness ==
    \E r \in ClickIds : click[r].status = 429 /\ Len(ledger) > 0 /\ total > PreTotal

\* C4: once every request has completed, counter.total is the initial
\* total plus the counts of exactly the requests answered ok: true, and
\* every ok: true answer carries the total just before the request's own
\* increment plus its count.
C4_TotalIsSumOfAccepted ==
    /\ AllDone =>
          total = PreTotal + SumCounts(SelectSeq(ledger, LAMBDA row : row.req = 0))
                  + SumCounts(SelectSeq(ledger, LAMBDA row :
                        row.req # 0 /\ click[row.req].status = 200))
    /\ \A r \in ClickIds :
          click[r].status = 200 =>
              /\ click[r].newTotal = click[r].before + click[r].count
              /\ Cardinality(rowsOf(r)) = 1

\* two requests interleaved, both answered ok: true
C4_Witness ==
    /\ AllDone
    /\ \A r \in ClickIds : click[r].status = 200
    /\ \E r \in ClickIds : click[r].before > PreTotal + SumCounts(SelectSeq(ledger, LAMBDA row : row.req = 0))

\* what the claims call an integer in [1, 200]
IntegerInRange(c) ==
    c.type = "number" /\ \E n \in 1 .. MaxBatch : c.twice = 2 * n

\* the first step of a request with such a count, and the steps of a
\* completed request
C5_InvalidCountStep ==
    /\ \A r \in ClickIds : \A in \in ClickInputs :
          (ClickArrive(r, in) /\ ~IntegerInRange(in.count))
              => /\ click'[r].pc = "done"
                 /\ click'[r].status = 400
                 /\ ~click'[r].asked
                 /\ UNCHANGED << total, ledger, verified, cache >>
    /\ \A r \in ClickIds : click[r].pc = "done" => click'[r] = click[r]

C6_NoTokenIs403 ==
    \A r \in ClickIds :
        (click[r].pc = "done" /\ click[r].needToken /\ click[r].token # "good")
            => /\ click[r].status = 403
               /\ rowsOf(r) = {}
               /\ ~click[r].marked

\* C6 amended: such a request is answered 403 when its token is refused by
\* the verification service and 400 when it carries no token (absent or
\* empty); either way it writes no ledger row and no verification record.
C6_BadTokenRejected ==
    \A r \in ClickIds :
        (click[r].pc = "done" /\ click[r].needToken /\ click[r].token # "good")
            => /\ click[r].status = IF click[r].token \in {Absent, ""} THEN 400 ELSE 403
               /\ click[r].asked = (click[r].token \notin {Absent, ""})
               /\ rowsOf(r) = {}
               /\ ~click[r].marked

\* one request turned away for a refused token and one for an empty token
C6_Witness ==
    \E r \in ClickIds : \E q \in ClickIds :
        /\ click[r].needToken /\ click[r].token = "bad" /\ click[r].status = 403
        /\ click[q].needToken /\ click[q].token = "" /\ click[q].status = 400

\* C7 as stated: a request answered 400, 403 or 429 has written nothing:
\* no ledger row, nothing added to counter.total, no verification record.
C7_RejectedLeavesNoTrace ==
    \A r \in ClickIds :
        click[r].status \in {400, 403, 429}
            => rowsOf(r) = {} /\ click[r].added = 0 /\ ~click[r].marked

\* C7 amended: a request answered 400 or 403 has written nothing; a request
\* answered 429 has written no ledger row and added nothing to
\* counter.total, but the verification record it wrote after a successful
\* token check stays.
C7_RejectedLeavesStoreUntouched ==
    \A r \in ClickIds :
        /\ click[r].status \in {400, 403}
              => rowsOf(r) = {} /\ click[r].added = 0 /\ ~click[r].marked
        /\ click[r].status = 429
              => rowsOf(r) = {} /\ click[r].added = 0

\* a request that passed the token check, wrote its verification record
\* and was then turned away by the cap
C7_Witness ==
    \E r \in ClickIds :
        /\ click[r].status = 429 /\ click[r].marked
        /\ \E v \in verified : v.ip_hash = hashIP(click[r].ip) /\ v.verified_at >= 0

\* ------------------------------------------------------- claims: the cache
\* the Origin values whose key handleClick deletes: none, or an allowed one
KnownOrigins ==
    {"none", "https://theglobalcounter.com", "https://www.theglobalcounter.com",
     "http://localhost:5173", "http://localhost:4173"}

C9_StaleWithinTtlOfInvalidation ==
    \A g \in CountIds :
        (count[g].hit /\ count[g].stale /\ count[g].sinceInval >= 0)
            => count[g].sinceInval <= CACHE_TTL_SECONDS

\* C9 amended: a cached total below counter.total is served for less than
\* one TTL after the entry holding it was stored, and no entry stays in the
\* cache longer; a read that read the store before the update can store
\* its total after the invalidation, and that entry is served until one
\* TTL after it was stored.
C9_StaleWithinTtlOfPut ==
    /\ \A g \in CountIds :
          count[g].hit => count[g].age >= 0 /\ count[g].age < CACHE_TTL_SECONDS
    /\ \A e \in cache : now - e.putAt < CACHE_TTL_SECONDS

\* a stale total served more than one TTL after the invalidation, from an
\* entry a racing read stored late
C9_Witness ==
    \E g \in CountIds :
        /\ count[g].hit /\ count[g].stale
        /\ count[g].sinceInval > CACHE_TTL_SECONDS
        /\ count[g].age < CACHE_TTL_SECONDS

\* --------------------------------------------------- claims: the animation
\* one step of the hook: the ref and the rendered state
C10_DisplayStep ==
    /\ displayRef' >= displayRef
    /\ displayCount # << >> =>
          displayCount' # << >> /\ displayCount'[1] >= displayCount[1]

\* C10: the displayed value never decreases, whatever the order of
\* setTarget, addImmediate and animation frames, also when a higher target
\* arrives during an animation and the animation is anchored anew.
C10_DisplayNeverDecreases == [][C10_DisplayStep]_vars

\* an animation anchored anew by a higher target while a frame is
\* requested, after an own click moved its anchors, with the display
\* between its start and the target
C10_Witness ==
    /\ rafRef
    /\ animStartRef > 0
    /\ animStartDisplayRef > 0
    /\ displayRef > animStartDisplayRef
    /\ displayRef < targetRef

\* a call of setTarget that does not raise the target
C11_LowerTargetStep ==
    \A t \in 0 .. MaxTarget :
        (setTarget(t) /\ t <= targetRef) => UNCHANGED hookVars

\* C11: setTarget(t) with t less than or equal to the current target leaves
\* the target, the displayed value (ref and rendered state), the
\* initialized flag, the animation anchors and the requested frame as they
\* were.
C11_LowerTargetIsNoOp == [][C11_LowerTargetStep]_vars

\* a target not above the current one handed to a live hook whose
\* animation is in flight
C11_Witness ==
    /\ lastCall.op = "setTarget"
    /\ lastCall.arg <= lastCall.target
    /\ lastCall.arg > 0
    /\ initializedRef
    /\ rafRef
    /\ displayRef < targetRef

\* the last call raised the target and no requested frame has failed to
\* run since
framesKeptFiring ==
    /\ lastCall.op = "setTarget"
    /\ lastCall.arg > lastCall.target
    /\ ~frameMissed
    /\ ~(rafRef /\ frameDue)

\* C12: after a setTarget that raises the target of a live interpolator,
\* with no further call and every requested frame run, the displayed value
\* equals the target from `duration` ms after that call on, and lies
\* between the value the animation started from and the target at every
\* frame before.
C12_ReachedWithinDuration ==
    framesKeptFiring =>
        /\ animStartDisplayRef <= displayRef \/ ~rafRef
        /\ displayRef <= targetRef
        /\ perfNow - animStartRef >= duration => displayRef = targetRef

\* the displayed value, as ref and as rendered state, against the target
C14_DisplayBelowTarget ==
    /\ displayRef <= targetRef
    /\ displayCount # << >> => displayCount[1] <= targetRef

\* C14: in every reachable state of the hook the displayed value is at most
\* the target, and no step of setTarget, addImmediate or tick lowers the
\* target.
C14_DisplayAtMostTarget ==
    []C14_DisplayBelowTarget /\ [][targetRef' >= targetRef]_vars

\* a frame that ran after an own click, before the animation's deadline,
\* and brought the display up to the target
C14_Witness ==
    /\ lastCall.op = "addImmediate"
    /\ rafRef
    /\ frameAt = perfNow
    /\ perfNow - animStartRef < duration
    /\ animStartDisplayRef < displayRef
    /\ displayRef = targetRef

\* a call of setTarget on a hook that is not yet initialized
C13_FirstTargetStep ==
    \A t \in 0 .. MaxTarget :
        (setTarget(t) /\ ~initializedRef)
            => /\ initializedRef'
               /\ displayRef' = t
               /\ displayCount' = << t >>
               /\ targetRef' = t
               /\ UNCHANGED << rafRef, animStartRef, animStartDisplayRef, animTargetRef >>

\* C13: the first setTarget(t) on an uninitialized hook, for every total
\* t >= 0 and also for t = 0, sets the displayed value (ref and rendered
\* state) to t in that call, requests no frame, and leaves the hook
\* initialized.
C13_FirstTargetSnaps == [][C13_FirstTargetStep]_vars

\* a call of addImmediate
C15_AddImmediateStep ==
    \A n \in OwnClicks :
        addImmediate(n)
            => /\ displayRef' = displayRef + n
               /\ displayCount' = << displayRef + n >>
               /\ targetRef' = targetRef + n
               /\ targetRef' - displayRef' = targetRef - displayRef
               /\ rafRef =>
                     /\ rafRef'
                     /\ animStartRef' = animStartRef
                     /\ animTargetRef' = targetRef'
                     /\ animTargetRef' - animStartDisplayRef'
                            = animTargetRef - animStartDisplayRef

\* no animation in flight: the display is at the target
C15_FinishedAtTarget ==
    /\ displayRef <= targetRef
    /\ ~rafRef => displayRef = targetRef

\* C15: addImmediate(n) raises the displayed value and the target by
\* exactly n in one step and moves the anchors of an animation in flight so
\* that neither the gap between target and display nor the animated gap
\* changes; the display never passes the target and equals it whenever no
\* animation is in flight.
C15_AddImmediateKeepsGap == []C15_FinishedAtTarget /\ [][C15_AddImmediateStep]_vars

\* an own click during an animation that had already moved the display,
\* with part of the gap still to animate
C15_Witness ==
    /\ lastCall.op = "addImmediate"
    /\ rafRef
    /\ animStartRef > 0
    /\ frameAt > animStartRef
    /\ animStartDisplayRef < displayRef
    /\ displayRef < targetRef

\* -------------------------------------------------------- claims: the page
\* the response to a batch of the periodic sender is being dealt with
senderGets(p) == batchSenderResponse(p)

\* C16: when a batch of size b sent by the periodic sender is answered ok
\* with total T, the page takes b off localDeltaRef, which stays at least 0,
\* calls setTarget(T + what is left of localDeltaRef) and leaves pendingRef
\* as it was.
C16_OkResponseAdoptsTotal ==
    [][\A p \in PostIds :
          (senderGets(p) /\ ~post[p].rejects /\ post[p].status = 200)
              => /\ localDeltaRef' = localDeltaRef - post[p].batch
                 /\ localDeltaRef' >= 0
                 /\ lastCall' = [op |-> "setTarget",
                                 arg |-> post[p].total + localDeltaRef',
                                 target |-> targetRef]
                 /\ pendingRef' = pendingRef]_vars

\* an ok response dealt with while a later click is still unsynced, which
\* raised the target
C16_Witness ==
    /\ \E p \in PostIds :
          /\ post[p].pc = "done"
          /\ post[p].by = "sender"
          /\ ~post[p].rejects
          /\ post[p].status = 200
    /\ lastCall.op = "setTarget"
    /\ lastCall.arg > lastCall.target
    /\ localDeltaRef > 0

\* C17: on a 429 and on a fetch that rejects, the page adds the batch back
\* to pendingRef and sets a cooldown that ends after the present instant;
\* while a cooldown runs the periodic sender sends nothing.
C17_RetryableFailureCoolsDown ==
    [][/\ \A p \in PostIds :
             (senderGets(p) /\ (post[p].rejects \/ post[p].status = 429))
                 => /\ pendingRef' = pendingRef + post[p].batch
                    /\ rateLimitedUntilRef' > perfNow
       /\ \A p \in PostIds :
             (batchSender(p) /\ perfNow < rateLimitedUntilRef)
                 => UNCHANGED << post, pendingRef >>]_vars

\* where a counted click is: the size of a batch that is in flight or was
\* given up
notInBuffer(r) ==
    IF r.pc \in {"sent", "answered"} THEN r.batch
    ELSE IF r.pc = "done" /\ r.by = "flush" THEN r.batch
    ELSE IF r.pc = "done" /\ ~r.rejects /\ r.status # 429 THEN r.batch
    ELSE 0

RECURSIVE SumNotInBuffer(_)
SumNotInBuffer(n) ==
    IF n = 0 THEN 0 ELSE notInBuffer(post[n]) + SumNotInBuffer(n - 1)

\* every counted click is in the buffer or in one batch
C18_CountedOnce == pendingRef + SumNotInBuffer(MaxPosts) = Len(countedAt)

\* the response 400 or 403 to a batch of the periodic sender
C18_RejectedStep ==
    \A p \in PostIds :
        (senderGets(p) /\ ~post[p].rejects /\ post[p].status \in {400, 403})
            => /\ pendingRef' = pendingRef
               /\ localDeltaRef' = localDeltaRef - post[p].batch
               /\ localDeltaRef' >= 0
               /\ UNCHANGED hookVars

\* C18: on a 400 or 403 for a batch of size b the page leaves pendingRef as
\* it was, takes b off localDeltaRef and leaves the hook, and so the
\* displayed value, untouched; the clicks of the batch never come back
\* into the buffer, so they are in no later batch.
C18_RejectedBatchDropped == []C18_CountedOnce /\ [][C18_RejectedStep]_vars

\* a batch that was refused, with its click still on display and nothing
\* left to send
C18_Witness ==
    /\ \E p \in PostIds :
          /\ post[p].pc = "done"
          /\ post[p].by = "sender"
          /\ ~post[p].rejects
          /\ post[p].status \in {400, 403}
          /\ displayRef >= post[p].batch
    /\ pendingRef = 0
    /\ localDeltaRef = 0

\* C19: the clicks of a batch leave the buffer for good only when the batch
\* is answered 400 or 403: when a submission of the periodic sender or of
\* flush ends in any other way short of ok (429, a fetch that rejects, a
\* 5xx), its clicks are back in pendingRef once the page has dealt with it.
C19_BufferKeptOnRecoverableFailure ==
    [][\A p \in PostIds :
          (/\ senderGets(p) \/ flushResponse(p)
           /\ post[p].rejects \/ post[p].status \notin {200, 400, 403})
              => pendingRef' = pendingRef + post[p].batch]_vars

\* the clicks counted from the instant s up to 1000 ms later
countedFrom(s) ==
    Cardinality({i \in DOMAIN countedAt :
                    s <= countedAt[i] /\ countedAt[i] < s + ClickWindowMs})

\* no 1000 ms hold more than 40 counted clicks
C20_WindowCapped ==
    \A i \in DOMAIN countedAt : countedFrom(countedAt[i]) <= CLICK_CAP_PER_SECOND

\* a click when the last 1000 ms already hold 40 counted clicks
C20_ClickBeyondCapStep ==
    (handleClick /\ countedFrom(perfNow - ClickWindowMs + 1) >= CLICK_CAP_PER_SECOND)
        => UNCHANGED << pendingRef, localDeltaRef, clickTimestampsRef, countedAt,
                        post, hookVars >>

C21_SendStep ==
    \A p \in PostIds :
        /\ ((batchSender(p) \/ flush(p)) /\ post'[p].pc = "sent")
              => /\ post'[p].batch = IF pendingRef > 200 THEN 200 ELSE pendingRef
                 /\ post'[p].batch >= 1
                 /\ pendingRef' = pendingRef - post'[p].batch
                 /\ pendingRef > 200 => pendingRef' = pendingRef - 200
        /\ (batchSender(p) /\ (pendingRef = 0 \/ perfNow < rateLimitedUntilRef))
              => UNCHANGED << post, pendingRef >>

\* the count of every request the page has sent
C21_CountInRange ==
    \A p \in PostIds : post[p].pc # "idle" => post[p].batch \in 1 .. 200

\* C21: every request of the periodic sender and of flush carries
\* min(pendingRef, 200), which is in 1 .. 200, and takes it off pendingRef
\* as it is sent, so what is above 200 stays buffered; the periodic sender
\* sends nothing while pendingRef is 0 or the cooldown has not ended.
C21_BatchIsCappedBuffer == []C21_CountInRange /\ [][C21_SendStep]_vars

\* a buffer of more than 200 clicks sent as a batch of 200 and, in a later
\* request, the rest
C21_Witness ==
    /\ post[1].pc # "idle"
    /\ post[1].batch = 200
    /\ post[2].pc # "idle"
    /\ post[2].batch = BacklogClicks - 200
    /\ pendingRef = 0

\* ------------------------------------------- claims: verification and caps
\* the call to the verification service fails, in the handler with the cap
\* on the volume
C22_ServiceFailsStep ==
    \A r \in ClickIds :
        ClickVerify(r, "error")
            => /\ click'[r].pc = "done"
               /\ click'[r].status = 403
               /\ UNCHANGED << verified, ledger, total >>

\* a request with a token the service would accept is answered 403 only
\* when the service could not be asked; it has written nothing
C22_FailedCallTrace ==
    \A r \in ClickIds :
        (click[r].status = 403 /\ click[r].token = "good")
            => /\ click[r].pc = "done"
               /\ rowsOf(r) = {}
               /\ click[r].added = 0
               /\ ~click[r].marked

\* C22 in the handler with the cap on the volume: when the fetch of the
\* verification service or the parse of its answer throws, verifyTurnstile
\* yields false whatever the token: the request is answered 403 in that
\* step and neither that step nor any later one of the request writes a
\* verification record, a ledger row or counter.total.
C22_VerificationFailsClosed == []C22_FailedCallTrace /\ [][C22_ServiceFailsStep]_vars

\* a request with a good token answered 403 because the service could not
\* be asked, its identity still without a fresh verification record
C22_Witness ==
    \E r \in ClickIds :
        /\ click[r].status = 403
        /\ click[r].token = "good"
        /\ click[r].asked
        /\ ~recentVerify(hashIP(click[r].ip))

\* the call to the verification service fails, in the handler with the cap
\* on the batches
C22_EarlierServiceFailsStep ==
    \A r \in ClickIds :
        CountCapVerify(r, "error")
            => /\ click'[r].pc = "done"
               /\ click'[r].status = 403
               /\ UNCHANGED << verified, ledger, total >>

\* C22 in the handler with the cap on the batches: when the fetch of the
\* verification service or the parse of its answer throws, the request is
\* answered 403 and writes no verification record, no ledger row and
\* nothing to counter.total.
C22_EarlierVerificationFailsClosed == [][C22_EarlierServiceFailsStep]_vars

\* the identity of request r has a verification record younger than 60 s
youngRecord(r) ==
    \E v \in verified :
        v.ip_hash = hashIP(click[r].ip) /\ now - v.verified_at < VerifyWindow

\* the look-up of the record lets a request through unasked exactly when
\* the record is young; otherwise the request needs a token
C23_LookUpStep ==
    \A r \in ClickIds :
        (click[r].pc = "recent" /\ click'[r] # click[r])
            => IF youngRecord(r)
               THEN click'[r].pc = "insert" /\ ~click'[r].needToken
               ELSE /\ click'[r].needToken
                    /\ click'[r].pc \in {"verify", "done"}
                    /\ click'[r].pc = "done" => click'[r].status = 400

\* verification records change only after a successful token check
C23_RecordStep ==
    verified' # verified
        => \E r \in ClickIds :
              /\ click[r].pc = "mark" /\ click[r].asked /\ click[r].token = "good"
              /\ click'[r].marked
              /\ verified' = {v \in verified : v.ip_hash # hashIP(click[r].ip)}
                    \cup {[ip_hash |-> hashIP(click[r].ip), verified_at |-> now]}

\* a request of a non-exempt identity that got past verification either
\* found a young record or had its good token accepted by the service
C23_PassedTrace ==
    \A r \in ClickIds :
        (~isLocal(click[r].ip) /\ (click[r].pc \in {"mark", "insert", "update"}
                                   \/ click[r].status \in {200, 429, 500}))
            => \/ ~click[r].needToken /\ ~click[r].asked
               \/ click[r].needToken /\ click[r].asked /\ click[r].token = "good"

\* C23: a non-exempt identity's request passes without a valid token only
\* when the look-up finds a verification record of that identity younger
\* than 60 seconds; a record is written or refreshed only after the service
\* accepted a token; once the record is 60 seconds old a request of the
\* identity needs a valid token again.
C23_PassOnlyWhileVerified ==
    []C23_PassedTrace /\ [][C23_LookUpStep /\ C23_RecordStep]_vars

\* a request without a token accepted under the old record, and a later
\* one without a token turned away when that record is 60 seconds old
C23_Witness ==
    \E r \in ClickIds : \E q \in ClickIds :
        /\ ~isLocal(click[r].ip) /\ click[r].token = Absent /\ click[r].status = 200
        /\ ~isLocal(click[q].ip) /\ click[q].token = Absent /\ click[q].status = 400
        /\ click[q].needToken
        /\ verified = {OldVerification}
        /\ now - OldVerification.verified_at = VerifyWindow

\* the clicks in the rows of identity h that are less than 5 seconds old
recentVolume(h) ==
    SumCounts(SelectSeq(ledger,
        LAMBDA row : row.ip_hash = h /\ now - row.created_at < RateWindow))

\* the conditional INSERT of a request that got past verification
C27_InsertStep ==
    \A r \in ClickIds :
        (click[r].pc = "insert" /\ click'[r] # click[r])
            => IF recentVolume(hashIP(click[r].ip)) + click[r].count <= RateCap
               THEN /\ click'[r].pc = "update"
                    /\ ledger' = Append(ledger,
                          [count |-> click[r].count, ip_hash |-> hashIP(click[r].ip),
                           created_at |-> now, req |-> r])
               ELSE /\ click'[r].pc = "done" /\ click'[r].status = 429
                    /\ ledger' = ledger

\* C27: a valid submission of count c that got past verification is
\* accepted (its ledger row written) exactly when the counts of its own
\* identity's ledger rows less than 5 seconds old, plus c, are at most 200,
\* and is answered 429 otherwise; rows of other identities and rows 5
\* seconds old or older do not enter the sum.
C27_AcceptedIffWithinCap == [][C27_InsertStep]_vars

\* two batches of 120 from the identity of the old row of 120: one turned
\* away while that row is in the window, one accepted once the row is 5
\* seconds old, the row still in the ledger
C27_Witness ==
    \E r \in ClickIds : \E q \in ClickIds :
        /\ click[r].ip = RemoteIP /\ click[r].count = 120 /\ click[r].status = 429
        /\ click[q].ip = RemoteIP /\ click[q].count = 120 /\ click[q].status = 200
        /\ Len(ledger) = 2 /\ ledger[1] = OldBatch

\* ------------------------------------------- claims: the page and the total
\* C24: the clicks the page's requests have added to counter.total are at
\* most the clicks the page has counted: no counted click is added twice,
\* also when a request was applied by the worker and its fetch rejected at
\* the page, which then sends the batch again.
C24_AddedAtMostOnce == total - PreTotal <= Len(countedAt)

\* the batch of a request that is sent and whose end the page has not
\* dealt with yet
inFlight(r) == IF r.pc \in {"sent", "answered"} THEN r.batch ELSE 0

RECURSIVE SumInFlight(_)
SumInFlight(n) ==
    IF n = 0 THEN 0 ELSE inFlight(post[n]) + SumInFlight(n - 1)

\* C28: in every state of the page localDeltaRef is pendingRef plus the
\* batches of the requests sent and not yet resolved, and neither is
\* negative, whatever the order of clicks, sends, responses, polls and
\* flushes.
C28_DeltaIsBufferPlusInFlight ==
    /\ pendingRef >= 0
    /\ localDeltaRef >= 0
    /\ localDeltaRef = pendingRef + SumInFlight(MaxPosts)

\* the counted clicks of the page that counter.total does not hold yet
\* (the page is the only client, so counter.total grows by its batches alone)
notYetAccepted == AtLeastZero(Len(countedAt) - (total - PreTotal))

\* C29: the target of the page never exceeds counter.total plus the page's
\* counted clicks that the worker has not accepted yet; a poll that
\* already reflects a batch whose response the page has not dealt with
\* does not make setTarget(total + localDeltaRef) count that batch twice.
C29_TargetNeverDoubleCounts == targetRef <= total + notYetAccepted

\* --------------------------------------------------------- claims: unmount
\* C25: once the component is unmounted the browser holds no requested
\* animation frame: the clean-up cancels the one that was requested, and a
\* poll or a submission whose response arrives after the unmount and calls
\* setTarget does not request a new one.
C25_NoFrameAfterUnmount == ~mounted => ~frameQueued

\* ------------------------------------------- claims: the cap on batches
\* the ledger rows of identity h created in the 5 seconds up to second t
rowsInWindow(h, t) ==
    {k \in DOMAIN ledger :
        /\ ledger[k].ip_hash = h
        /\ ledger[k].created_at > t - RateWindow
        /\ ledger[k].created_at <= t}

\* C26: under the handler that caps the number of batches, whatever the
\* interleaving of the requests of one identity, the ledger never holds
\* more than 10 rows of that identity created within one window of 5
\* seconds.
C26_AtMostTenRowsPerWindow ==
    \A k \in DOMAIN ledger : \A t \in 0 .. MaxTime :
        Cardinality(rowsInWindow(ledger[k].ip_hash, t)) <= BatchCap

\* ------------------------------------------------------ claims: progress
\* C30: when the user has stopped clicking and every submission is
\* accepted and every poll succeeds, the page comes to rest with
\* pendingRef = 0 and localDeltaRef = 0 and with counter.total on display.
C30_EventuallyInSync ==
    <>[](pendingRef = 0 /\ localDeltaRef = 0 /\ displayCount = << total >>)

====
